---- MODULE Spec2Model ----
(***************************************************************************)
(* Model of ImageNodeParserWorkflow (src/src/image_node_parser_workflow.py) *)
(* and of its caller (src/main.py).  One workflow instance receives a       *)
(* bounded number of run() invocations; every step of the workflow is one   *)
(* action, enabled by the type of the event in flight.                      *)
(*                                                                         *)
(* The event classes declare typed fields (lines 32-52).  What the event    *)
(* base class does with a declared field that is missing or mistyped is     *)
(* decided by the installed event-model library, not by this repository:    *)
(* a validating build rejects it (the constructing step raises) and copies  *)
(* dictionaries; a coercing build fills a missing optional field with None, *)
(* converts a non-dict with dict(v) and keeps a dict by reference.  Both    *)
(* outcomes are modelled; `validation` selects one per behaviour.           *)
(***************************************************************************)
EXTENDS Integers, Sequences, FiniteSets, TLC

\* ------------------------------------------------------------------ bounds
MaxRegions == 2      \* longest region list (caller-supplied or detected)
MaxRuns == 2         \* invocations of run() on the one workflow instance

\* ------------------------------------------------------- program constants
\* thresholds are kept in tenths: 0.1 -> 1, 0.3 -> 3
DefaultConfidence == 1
DefaultNms == 3
FallbackConfidence == 1
FallbackNms == 3
\* the thresholds of a caller that passes its own object_detection_configuration
CallerOdc == [confidence |-> 5, nms_threshold |-> 7]

FailureReason == "Bounding box creation failed due to an error."

\* ------------------------------------------------------------ value types
\* ImageRegion: two sample regions
RegionA == [x1 |-> 10, y1 |-> 10, x2 |-> 50, y2 |-> 50, label |-> "chair", score |-> 9]
RegionB == [x1 |-> 20, y1 |-> 30, x2 |-> 60, y2 |-> 90, label |-> "table", score |-> 4]
Regions == {RegionA, RegionB}

RegionLists == UNION {[1..n -> Regions] : n \in 0..MaxRegions}

\* a Python dict is a function from its keys; the empty dict is <<>>
EmptyDict == <<>>
HasKey(d, k) == k \in DOMAIN d
Put(d, k, v) == [x \in (DOMAIN d) \cup {k} |-> IF x = k THEN v ELSE d[x]]
Get(d, k, default) == IF HasKey(d, k) THEN d[k] ELSE default

\* the class attribute _default_predictor_configuration; the trailing comma after
\* the closing brace makes it a 1-tuple holding the dict, not the dict
DefaultPredictorDict == [model_name |-> "facebook/sam2-hiera-small", sam_settings |-> "{}"]
DefaultPredictorConfiguration == <<DefaultPredictorDict>>

\* the class attribute _object_detection_configuration
ObjectDetectionConfiguration == [confidence |-> DefaultConfidence, nms_threshold |-> DefaultNms]

\* the keys of the default dict in insertion order
DefaultPredictorKeys == <<"model_name", "sam_settings">>

\* dict(v) of the 1-tuple v: every element of v must be a pair; iterating the
\* two-key dict yields its keys, so it is taken as the pair (first key, second key)
DictOfTuple(t) == [k \in {DefaultPredictorKeys[1]} |-> DefaultPredictorKeys[Len(t) + 1]]

\* the segmentation configurations a caller may pass
\* prompts are sequences of characters: letters, the space and the newline
CallerPrompt == <<"c", "\n", " ", "t">>
ElicitedPrompt == <<"m", " ", "\n", "l", "\n">>
Whitespace == {" ", "\n"}

\* prompt.split("\n"): the pieces between newlines, empty pieces included
Split(s) ==
    LET F[i \in 0..Len(s)] ==
            IF i = 0 THEN << <<>> >>
            ELSE IF s[i] = "\n" THEN Append(F[i-1], <<>>)
                 ELSE [F[i-1] EXCEPT ![Len(F[i-1])] = Append(@, s[i])]
    IN  F[Len(s)]

\* x.strip(): x without its leading and trailing whitespace
Strip(x) ==
    LET keep == {i \in 1..Len(x) : x[i] \notin Whitespace}
    IN  IF keep = {} THEN <<>>
        ELSE SubSeq(x, CHOOSE i \in keep : \A j \in keep : i <= j,
                       CHOOSE i \in keep : \A j \in keep : j <= i)

\* a slip in _detect_bboxes_with_owlv2: texts = [prompt.split("\n")]
TextsUnstripped(prompt) == Split(prompt)

\* texts[0] = [x.strip() for x in prompt.split("\n")]
Texts(prompt) == [i \in 1..Len(Split(prompt)) |-> Strip(Split(prompt)[i])]
CallerKeySets == SUBSET {"model_name", "sam_settings", "bbox_list", "prompt"}
CallerValues(k) ==
    CASE k = "model_name" -> {"facebook/sam2.1-hiera-large"}
      [] k = "sam_settings" -> {"caller_settings"}
      [] k = "prompt" -> {CallerPrompt}
      [] k = "bbox_list" -> RegionLists
CallerCfgs ==
    UNION {
        {[k \in ks |-> IF k = "bbox_list" THEN bl ELSE CHOOSE v \in CallerValues(k) : TRUE]
            : bl \in (IF "bbox_list" \in ks THEN RegionLists ELSE {<<>>})}
        : ks \in CallerKeySets}

\* a segmentation_configuration slot: None, or a dict
NoCfg == [present |-> FALSE, d |-> EmptyDict]
SomeCfg(d) == [present |-> TRUE, d |-> d]

\* an object_detection_configuration slot: None, or a dict
NoOdc == [present |-> FALSE, d |-> EmptyDict]
SomeOdc(d) == [present |-> TRUE, d |-> d]

\* the entry forms of run(): which of image / base64_image / image_path are given
InputForms ==
    { [image |-> "none", b64 |-> FALSE, path |-> FALSE],
      [image |-> "node", b64 |-> FALSE, path |-> FALSE],
      [image |-> "other", b64 |-> FALSE, path |-> FALSE],
      [image |-> "none", b64 |-> TRUE, path |-> FALSE],
      [image |-> "none", b64 |-> FALSE, path |-> TRUE],
      [image |-> "node", b64 |-> TRUE, path |-> TRUE] }

\* the value run() hands to its caller
\* (error names the statement whose exception reached the caller, when one did)
NoneResult ==
    [kind |-> "None", keys |-> {}, source |-> "", chunks |-> <<>>, descriptions |-> <<>>,
     error |-> ""]
RaisedResult ==
    [kind |-> "raised", keys |-> {}, source |-> "", chunks |-> <<>>, descriptions |-> <<>>,
     error |-> "exception"]
NotReturned ==
    [kind |-> "pending", keys |-> {}, source |-> "", chunks |-> <<>>, descriptions |-> <<>>,
     error |-> ""]
DictResult(keys, cs, ds) ==
    [kind |-> "dict", keys |-> keys, source |-> "root", chunks |-> cs, descriptions |-> ds,
     error |-> ""]
Raised(why) == [RaisedResult EXCEPT !.error = why]

VARIABLES
    validation,     \* "strict" | "coerce": the event model of the build
    multi_modal_llm,\* TRUE when a multi-modal LLM is set on the instance
    processor,      \* TRUE once the detection processor handle exists
    model,          \* TRUE once the detection model handle exists
    loads,          \* how often each provider handle was created on this instance
    callerCfg,      \* the caller's segmentation configuration dict (one object), once made
    node,           \* the caller's ImageNode, once made: [made, hasSource, children]
    runs,           \* run() invocations started
    start,          \* the StartEvent's attributes
    ev,             \* type of the event in flight
    image,          \* the event's image: "none" | "node" | "doc"
    doc,            \* the ImageDocument built by load_image: [hasSource, children]
    seg,            \* the event's segmentation_configuration
    alias,          \* TRUE when seg is the caller's dict object itself
    odc,            \* the event's object_detection_configuration
    parsed,         \* chunks carried by ImageParsedEvent
    stop,           \* the StopEvent: [result, reason]
    retval,         \* what run() handed to the caller
    trace,          \* steps run in this invocation, in order
    calls,          \* provider calls of this invocation, in order
    detected,       \* what the detection provider returned in this invocation
    failure,        \* what made create_bboxes fail in this invocation
    diag            \* diagnostic events sent in this invocation

vars == <<validation, multi_modal_llm, processor, model, loads, callerCfg, node, runs,
          start, ev, image, doc, seg, alias, odc, parsed, stop, retval, trace, calls,
          detected, failure, diag>>

\* ------------------------------------------------------------------ helpers
Call(p, arg) == [p |-> p, arg |-> arg]

\* the argument of a multi_modal_llm.complete call: what it is used for, the chunk
\* it is given, and whether it raised
NoChunk == [run |-> 0, k |-> 0]
Elicit(raised) == [use |-> "elicit", chunk |-> NoChunk, raised |-> raised]
Caption(id, raised) == [use |-> "caption", chunk |-> id, raised |-> raised]
NoStop == [result |-> NotReturned, reason |-> ""]

\* the root artifact of the invocation
Root == IF image = "node" THEN node ELSE doc
FreshDoc == [made |-> TRUE, hasSource |-> FALSE, children |-> <<>>]
NoNode == [made |-> FALSE, hasSource |-> FALSE, children |-> <<>>]

\* a slip in the lineage rule: the node itself is always taken as the source
RefDocIdSelf(n) == "root"

\* _ref_doc_id: the node's own source when it has one, else the node itself
RefDocId(n) == IF n.hasSource THEN "origin" ELSE "root"

\* a slip in the annotations: create_bboxes and parse_image take each other's event
AcceptedSwapped(step) ==
    CASE step = "load_image" -> "StartEvent"
      [] step = "create_bboxes" -> "BBoxCreatedEvent"
      [] step = "parse_image" -> "ImageLoadedEvent"
      [] step = "describe_image" -> "ImageParsedEvent"
      [] step = "_done" -> "StopEvent"

\* which event type each step takes (the annotation of its parameter)
Accepted(step) ==
    CASE step = "load_image" -> "StartEvent"
      [] step = "create_bboxes" -> "ImageLoadedEvent"
      [] step = "parse_image" -> "BBoxCreatedEvent"
      [] step = "describe_image" -> "ImageParsedEvent"
      [] step = "_done" -> "StopEvent"

\* a declared event field that is missing, or is given a value that is no dict,
\* makes a validating build raise in the constructor
FieldRaises(given, isDict) == validation = "strict" /\ (~given \/ ~isDict)

\* an exception leaves a step at the statement named why: run() raises to its caller
Fault(why) ==
    /\ ev' = "None"
    /\ retval' = Raised(why)

\* a step returns StopEvent(...)
StopWith(result, reason) ==
    /\ ev' = "StopEvent"
    /\ stop' = [result |-> result, reason |-> reason]
    /\ retval' = retval

\* a write into the event's configuration dict is a write into the caller's dict
\* when the event holds that very object
WriteSeg(d) ==
    /\ seg' = SomeCfg(d)
    /\ callerCfg' = IF alias THEN SomeCfg(d) ELSE callerCfg

\* --------------------------------------------------------------------- Init
Init ==
    /\ validation \in {"strict", "coerce"}
    /\ multi_modal_llm \in BOOLEAN
    /\ processor = FALSE
    /\ model = FALSE
    /\ loads = [processor |-> 0, model |-> 0, predictor |-> 0]
    /\ callerCfg = NoCfg
    /\ node = NoNode
    /\ runs = 0
    /\ start = [image |-> "none", b64 |-> FALSE, path |-> FALSE, seg |-> FALSE, odc |-> FALSE]
    /\ ev = "None"
    /\ image = "none"
    /\ doc = FreshDoc
    /\ seg = NoCfg
    /\ alias = FALSE
    /\ odc = NoOdc
    /\ parsed = <<>>
    /\ stop = NoStop
    /\ retval = NotReturned
    /\ trace = <<>>
    /\ calls = <<>>
    /\ detected = [called |-> FALSE, regions |-> <<>>]
    /\ failure = "none"
    /\ diag = <<>>

\* ---------------------------------------------------------------------- run
\* the caller invokes workflow.run(...) with one of the entry forms, with or
\* without its segmentation_configuration and object_detection_configuration.
\* The caller makes its configuration dict d and its ImageNode (with or without a
\* source relationship, hs) when it first passes them, and passes the same objects
\* in later invocations
run(form, segGiven, odcGiven, d, hs) ==
    /\ ev = "None"
    /\ runs < MaxRuns
    /\ callerCfg' = IF segGiven THEN SomeCfg(d) ELSE callerCfg
    /\ node' = IF form.image = "node" THEN [node EXCEPT !.made = TRUE, !.hasSource = hs]
               ELSE node
    /\ runs' = runs + 1
    /\ start' = [image |-> form.image, b64 |-> form.b64, path |-> form.path,
                 seg |-> segGiven, odc |-> odcGiven]
    /\ ev' = "StartEvent"
    /\ image' = "none"
    /\ doc' = FreshDoc
    /\ seg' = NoCfg
    /\ alias' = FALSE
    /\ odc' = NoOdc
    /\ parsed' = <<>>
    /\ stop' = NoStop
    /\ retval' = NotReturned
    /\ trace' = <<>>
    /\ calls' = <<>>
    /\ detected' = [called |-> FALSE, regions |-> <<>>]
    /\ failure' = "none"
    /\ diag' = <<>>
    /\ UNCHANGED <<validation, multi_modal_llm, processor, model, loads>>

\* --------------------------------------------------------------- load_image
\* ImageLoadedEvent(image=..., segmentation_configuration=sam_configuration
\*                  [, object_detection_configuration=...])
ImageLoaded(img, odcGiven) ==
    IF FieldRaises(TRUE, start.seg) \/ FieldRaises(odcGiven, TRUE)
    THEN /\ Fault("ImageLoadedEvent")
         /\ UNCHANGED <<image, seg, alias, odc, stop>>
    ELSE /\ ev' = "ImageLoadedEvent"
         /\ image' = img
         /\ seg' = IF start.seg THEN callerCfg
                   ELSE SomeCfg(DictOfTuple(DefaultPredictorConfiguration))
         /\ alias' = (start.seg /\ validation = "coerce")
         /\ odc' = IF odcGiven THEN SomeOdc(ObjectDetectionConfiguration) ELSE NoOdc
         /\ UNCHANGED <<stop, retval>>

\* the docstring's behaviour: raise ValueError when no image is provided
NoImageRaises ==
    /\ Fault("ValueError")
    /\ UNCHANGED <<image, seg, alias, odc, stop>>

\* the else branch: return StopEvent()
NoImage ==
    /\ StopWith(NoneResult, "")
    /\ UNCHANGED <<image, seg, alias, odc>>

load_image ==
    /\ ev = Accepted("load_image")
    /\ trace' = Append(trace, "load_image")
    /\ IF start.image = "node" THEN ImageLoaded("node", FALSE)
       ELSE IF start.b64 THEN ImageLoaded("doc", FALSE)
       ELSE IF start.path THEN ImageLoaded("doc", TRUE)
       ELSE NoImage
    /\ UNCHANGED <<validation, multi_modal_llm, processor, model, loads, callerCfg, node,
                   runs, start, doc, parsed, calls, detected, failure, diag>>

\* ------------------------------------------------------------ create_bboxes
\* a slip in the except branch: log the error and go on to the next stage
DetectFailedProceeds(why) ==
    /\ ev' = "BBoxCreatedEvent"
    /\ failure' = why
    /\ UNCHANGED <<alias, odc, detected, stop, retval>>

\* the except branch: log and return StopEvent(reason=...)
DetectFailed(why) ==
    /\ StopWith(NoneResult, FailureReason)
    /\ failure' = why
    /\ UNCHANGED <<alias, odc, detected>>

\* return BBoxCreatedEvent(image=..., segmentation_configuration=...): the declared
\* object_detection_configuration is not passed
BBoxCreated ==
    IF FieldRaises(TRUE, TRUE) \/ FieldRaises(FALSE, TRUE)
    THEN /\ Fault("BBoxCreatedEvent")
         /\ UNCHANGED <<alias, odc, stop>>
    ELSE /\ ev' = "BBoxCreatedEvent"
         /\ odc' = NoOdc
         /\ UNCHANGED <<alias, stop, retval>>

\* get_or_create_owl_v2_processor / get_or_create_owl_v2
ProcessorCreated ==
    [loads EXCEPT !.processor = @ + (IF processor THEN 0 ELSE 1)]
BothCreated ==
    [ProcessorCreated EXCEPT !.model = @ + (IF model THEN 0 ELSE 1)]

\* _detect_bboxes_with_owlv2(image, prompt, confidence, nms_threshold): the call is
\* recorded with the thresholds it was given and the texts it makes of the prompt for
\* the processor; it raises before a handle is made,
\* between the two handles, or after both, or it returns a region list
DetectCall(d, log) ==
    LET conf == Get(odc.d, "confidence", FallbackConfidence)
        nms == Get(odc.d, "nms_threshold", FallbackNms)
        called == Append(log, Call("detect", [prompt |-> d["prompt"],
                                                 texts |-> Texts(d["prompt"]),
                                                 confidence |-> conf,
                                                 nms_threshold |-> nms]))
    IN  \/ /\ calls' = called
           /\ DetectFailed("detector_raised")
           /\ UNCHANGED <<processor, model, loads>>
        \/ /\ ~model
           /\ calls' = called
           /\ DetectFailed("detector_raised")
           /\ processor' = TRUE
           /\ loads' = ProcessorCreated
           /\ UNCHANGED model
        \/ /\ calls' = called
           /\ DetectFailed("detector_raised")
           /\ processor' = TRUE
           /\ model' = TRUE
           /\ loads' = BothCreated
        \/ \E R \in RegionLists :
              /\ calls' = called
              /\ processor' = TRUE
              /\ model' = TRUE
              /\ loads' = BothCreated
              /\ detected' = [called |-> TRUE, regions |-> R]
              /\ failure' = "none"
              /\ BBoxCreated

\* the rest of the try block once the configuration d holds a prompt; log is the
\* provider calls made so far
DetectWith(d, log) ==
    IF ~odc.present
    THEN \* None.get(...) raises before the detector is called
         /\ calls' = log
         /\ DetectFailed("no_detection_configuration")
         /\ UNCHANGED <<processor, model, loads>>
    ELSE DetectCall(d, log)

\* a slip in the test: detection runs whether or not regions were supplied
NeedsDetectionAlways(d) == TRUE

\* if 'bbox_list' not in image_laoded_event.segmentation_configuration
NeedsDetection(d) == ~HasKey(d, "bbox_list")

create_bboxes ==
    /\ ev = Accepted("create_bboxes")
    /\ trace' = Append(trace, "create_bboxes")
    /\ IF ~NeedsDetection(seg.d)
       THEN /\ BBoxCreated
            /\ UNCHANGED <<seg, callerCfg, processor, model, loads, calls, detected, failure>>
       ELSE IF HasKey(seg.d, "prompt")
       THEN /\ DetectWith(seg.d, calls)
            /\ UNCHANGED <<seg, callerCfg>>
       ELSE IF ~multi_modal_llm
       THEN \* None.complete(...) raises
            /\ DetectFailed("no_llm")
            /\ UNCHANGED <<seg, callerCfg, processor, model, loads, calls>>
       ELSE \/ /\ calls' = Append(calls, Call("complete", Elicit(TRUE)))
               /\ DetectFailed("llm_raised")
               /\ UNCHANGED <<seg, callerCfg, processor, model, loads>>
            \/ LET d == Put(seg.d, "prompt", ElicitedPrompt)
               IN  /\ WriteSeg(d)
                   /\ DetectWith(d, Append(calls, Call("complete", Elicit(FALSE))))
    /\ UNCHANGED <<validation, multi_modal_llm, node, runs, start, image, doc, parsed,
                   diag>>

\* -------------------------------------------------------------- parse_image
Box(r) == [x1 |-> r.x1, y1 |-> r.y1, x2 |-> r.x2, y2 |-> r.y2]

\* how one region fares: the predictor raises on it, its mask/composite/crop raises,
\* its encoding (inside the try) raises, or all of it succeeds
RegionOutcomes == {"ok", "encode_raises", "crop_raises", "predict_raises"}

\* the identity of the k-th ImageNode built in this invocation
NodeId(k) == [run |-> runs, k |-> k]

\* a slip in the metadata: the box is recorded as (x1, x2, y1, y2)
ChunkBoxMixed(r, id, root) ==
    [id |-> id, region |-> [x1 |-> r.x1, y1 |-> r.x2, x2 |-> r.y1, y2 |-> r.y2],
     source |-> RefDocId(root), parent |-> "root"]

\* the ImageNode built for a region: metadata region, SOURCE and PARENT relationships
Chunk(r, id, root) ==
    [id |-> id, region |-> Box(r), source |-> RefDocId(root), parent |-> "root"]

\* the second loop over the first n regions: the chunks appended so far
ChunksUpTo(bl, out, root, n) ==
    LET F[i \in 0..n] ==
            IF i = 0 THEN <<>>
            ELSE IF out[i] = "ok"
                 THEN Append(F[i-1], Chunk(bl[i], NodeId(Len(F[i-1]) + 1), root))
                 ELSE F[i-1]
    IN  F[n]

\* the events sent by the second loop over the first n regions
EventsUpTo(out, n) ==
    [i \in 1..n |-> IF out[i] = "ok" THEN "ImageChunkGenerated" ELSE "WorkflowRuntimeError"]

\* the first region on which a step with outcome o happens, 0 when there is none
FirstWith(out, o) ==
    IF \E i \in DOMAIN out : out[i] = o
    THEN CHOOSE i \in DOMAIN out : out[i] = o /\ \A j \in 1..(i-1) : out[j] # o
    ELSE 0

\* the predictor calls of the first loop over the first n regions
PredictCalls(bl, n) == [i \in 1..n |-> Call("predict", Box(bl[i]))]

\* a slip in _parse_image_node_with_sam2: the CHILD list is replaced, not extended
WithChildrenReplaced(root, chunks) ==
    [root EXCEPT !.children = [i \in 1..(Len(chunks) - 1) |-> chunks[i + 1].id]]

\* image_node.relationships[CHILD] = children + [every chunk but the first]
WithChildren(root, chunks) ==
    [root EXCEPT !.children =
        @ \o [i \in 1..(Len(chunks) - 1) |-> chunks[i + 1].id]]

\* a slip in parse_image: the chunk list goes on to describe_image even when empty
ParsedOutAlways(chunks) ==
    /\ ev' = "ImageParsedEvent"
    /\ parsed' = chunks
    /\ UNCHANGED <<stop, retval>>

\* the end of parse_image: StopEvent(result={source, chunks: []}) when no chunk was
\* made, else ImageParsedEvent(source, chunks)
ParsedOut(chunks) ==
    IF Len(chunks) = 0
    THEN /\ StopWith(DictResult({"source", "chunks"}, <<>>, <<>>), "")
         /\ parsed' = parsed
    ELSE /\ ev' = "ImageParsedEvent"
         /\ parsed' = chunks
         /\ UNCHANGED <<stop, retval>>

\* _parse_image_node_with_sam2 on configuration d, then the rest of parse_image
ParseWith(d) ==
    IF ~HasKey(d, "model_name")
    THEN \* configuration["model_name"] raises KeyError
         /\ Fault("model_name")
         /\ UNCHANGED <<loads, calls, diag, node, doc, parsed, stop>>
    ELSE \/ \* SAM2ImagePredictor.from_pretrained raises
            /\ Fault("from_pretrained")
            /\ UNCHANGED <<loads, calls, diag, node, doc, parsed, stop>>
         \/ /\ loads' = [loads EXCEPT !.predictor = @ + 1]
            /\ IF ~HasKey(d, "bbox_list")
               THEN \* configuration["bbox_list"] raises KeyError
                    /\ Fault("bbox_list")
                    /\ UNCHANGED <<calls, diag, node, doc, parsed, stop>>
               ELSE \E out \in [1..Len(d["bbox_list"]) -> RegionOutcomes] :
                      LET bl == d["bbox_list"]
                          n == Len(bl)
                          p == FirstWith(out, "predict_raises")
                          c == FirstWith(out, "crop_raises")
                          chunks == ChunksUpTo(bl, out, Root, n)
                      IN  IF p # 0
                          THEN /\ Fault("predict")
                               /\ calls' = calls \o PredictCalls(bl, p)
                               /\ UNCHANGED <<diag, node, doc, parsed, stop>>
                          ELSE IF c # 0
                          THEN /\ Fault("crop")
                               /\ calls' = calls \o PredictCalls(bl, n)
                               /\ diag' = diag \o EventsUpTo(out, c - 1)
                               /\ UNCHANGED <<node, doc, parsed, stop>>
                          ELSE /\ calls' = calls \o PredictCalls(bl, n)
                               /\ diag' = diag \o EventsUpTo(out, n)
                               /\ IF image = "node"
                                  THEN node' = WithChildren(node, chunks) /\ doc' = doc
                                  ELSE doc' = WithChildren(doc, chunks) /\ node' = node
                               /\ ParsedOut(chunks)

parse_image ==
    /\ ev = Accepted("parse_image")
    /\ trace' = Append(trace, "parse_image")
    /\ ParseWith(seg.d)
    /\ UNCHANGED <<validation, multi_modal_llm, processor, model, callerCfg, runs, start,
                   image, seg, alias, odc, detected, failure>>

\* ----------------------------------------------------------- describe_image
\* a slip in describe_image: the caption's SOURCE is the root itself, not _ref_doc_id
DescriptionOfRoot(chunk, root) == [null |-> FALSE, parent |-> chunk.id, source |-> "root"]

\* the TextNode of a caption, or the None appended by the except branch
Description(chunk, root) == [null |-> FALSE, parent |-> chunk.id, source |-> RefDocId(root)]
NullDescription == [null |-> TRUE, parent |-> NoChunk, source |-> ""]

IsText(x) == ~x.null

\* a slip in describe_image: the except branch appends nothing
DescriptionsOmitFailed(chunks, capt, root) ==
    IF multi_modal_llm
    THEN SelectSeq([i \in 1..Len(chunks) |->
                      IF capt[i] = "ok" THEN Description(chunks[i], root)
                      ELSE NullDescription], IsText)
    ELSE <<>>

\* a slip in describe_image: no "is not None" test, so with no multi_modal_llm every
\* complete call raises inside the try and None is appended for every chunk
DescriptionsUnguarded(chunks, capt, root) ==
    [i \in 1..Len(chunks) |->
        IF multi_modal_llm /\ capt[i] = "ok" THEN Description(chunks[i], root)
        ELSE NullDescription]

\* image_descriptions after the loop of describe_image; capt[i] is the outcome of
\* the complete call for chunk i
Descriptions(chunks, capt, root) ==
    IF multi_modal_llm
    THEN [i \in 1..Len(chunks) |->
            IF capt[i] = "ok" THEN Description(chunks[i], root) ELSE NullDescription]
    ELSE <<>>

CaptionCalls(chunks, capt) ==
    IF multi_modal_llm
    THEN [i \in 1..Len(chunks) |-> Call("complete", Caption(chunks[i].id, capt[i] = "raises"))]
    ELSE <<>>

\* a slip in describe_image: the result pairs chunks with descriptions, so it keeps
\* only as many chunks as there are descriptions
DescribedResultZipped(chunks, descs) ==
    DictResult({"source", "chunks", "descriptions"},
               [i \in 1..Len(descs) |-> chunks[i]], descs)

\* result = {"source": ..., "chunks": image_parsed_event.chunks, "descriptions": ...}
DescribedResult(chunks, descs) ==
    DictResult({"source", "chunks", "descriptions"}, chunks, descs)

describe_image ==
    /\ ev = Accepted("describe_image")
    /\ trace' = Append(trace, "describe_image")
    /\ \E capt \in [1..Len(parsed) -> (IF multi_modal_llm THEN {"ok", "raises"} ELSE {"ok"})] :
          /\ calls' = calls \o CaptionCalls(parsed, capt)
          /\ StopWith(DescribedResult(parsed, Descriptions(parsed, capt, Root)), "")
    /\ UNCHANGED <<validation, multi_modal_llm, processor, model, loads, callerCfg, node,
                   runs, start, image, doc, seg, alias, odc, parsed, detected, failure,
                   diag>>

\* -------------------------------------------------------------------- _done
\* the StopEvent ends the run; run() returns the event's result
done ==
    /\ ev = Accepted("_done")
    /\ ev' = "None"
    /\ retval' = stop.result
    /\ UNCHANGED <<validation, multi_modal_llm, processor, model, loads, callerCfg, node,
                   runs, start, image, doc, seg, alias, odc, parsed, stop, trace, calls,
                   detected, failure, diag>>

\* --------------------------------------------------------------------- Spec
\* the first invocation takes any entry form, with or without either configuration;
\* a later invocation repeats the caller's first call on the same objects
FormsNow ==
    IF runs = 0 THEN InputForms
    ELSE {[image |-> start.image, b64 |-> start.b64, path |-> start.path]}
SegNow == IF runs = 0 THEN BOOLEAN ELSE {start.seg}
OdcNow == IF runs = 0 THEN BOOLEAN ELSE {start.odc}

Next ==
    \/ \E form \in FormsNow, segGiven \in SegNow, odcGiven \in OdcNow :
          \E d \in (IF segGiven /\ ~callerCfg.present THEN CallerCfgs ELSE {callerCfg.d}),
             hs \in (IF form.image = "node" /\ ~node.made THEN BOOLEAN ELSE {node.hasSource}) :
              run(form, segGiven, odcGiven, d, hs)
    \/ load_image
    \/ create_bboxes
    \/ parse_image
    \/ describe_image
    \/ done

Spec == Init /\ [][Next]_vars

\* ------------------------------------------------------------------- claims
StageOrder == <<"load_image", "create_bboxes", "parse_image", "describe_image">>
IsPrefix(a, b) == Len(a) <= Len(b) /\ \A i \in 1..Len(a) : a[i] = b[i]
Ran(step) == \E i \in 1..Len(trace) : trace[i] = step
Called(p) == \E i \in 1..Len(calls) : calls[i].p = p
Returned == runs > 0 /\ ev = "None"

\* the chunk list of the invocation as far as it has travelled: in the
\* ImageParsedEvent, in the StopEvent, or in the value handed to the caller
ResultChunks ==
    IF ev = "ImageParsedEvent" THEN parsed
    ELSE IF ev = "StopEvent" THEN stop.result.chunks
    ELSE retval.chunks

\* C1: in every invocation the stages run in the order load, detect,
\* segment-and-crop, describe, none of them twice, and each only on the message
\* the previous one produced: the steps run so far are a prefix of that order and
\* the event in flight is the one the last step run produces.
C1_StagesInOrder ==
    /\ IsPrefix(trace, StageOrder)
    /\ ev = "StartEvent" => trace = <<>>
    /\ ev = "ImageLoadedEvent" => trace = SubSeq(StageOrder, 1, 1)
    /\ ev = "BBoxCreatedEvent" => trace = SubSeq(StageOrder, 1, 2)
    /\ ev = "ImageParsedEvent" => trace = SubSeq(StageOrder, 1, 3)
    /\ ev = "StopEvent" => Len(trace) \in {1, 2, 3, 4}

C1_Witness ==
    /\ Returned
    /\ trace = StageOrder
    /\ retval.kind = "dict"

\* C2: every invocation of run hands a result to its caller; none ends with an
\* exception escaping a step, whatever the input form and the configuration.
C2_NoFaultEscapes == Returned => retval.kind # "raised"

\* C3: when the configuration carries no region list and the detector returned the
\* list R, the message from the detect stage to the segment-and-crop stage carries
\* exactly R as its region list.
C3_DetectedRegionsPassedOn ==
    (ev = "BBoxCreatedEvent" /\ detected.called) =>
        (HasKey(seg.d, "bbox_list") /\ seg.d["bbox_list"] = detected.regions)

\* C4: if the prompt-elicitation call or the detector call raises in the detect
\* stage, the pipeline stops there: neither later stage runs, the segmentation
\* provider is not called, no chunk is made, and the result has neither chunks nor
\* descriptions.
C4_DetectFailureStops ==
    failure \in {"llm_raised", "detector_raised"} =>
        /\ ev \in {"StopEvent", "None"}
        /\ trace = SubSeq(StageOrder, 1, 2)
        /\ ~Called("predict")
        /\ diag = <<>>
        /\ parsed = <<>>
        /\ stop.result.keys \cap {"chunks", "descriptions"} = {}
        /\ Returned => retval.keys \cap {"chunks", "descriptions"} = {}

C4_Witness ==
    /\ Returned
    /\ failure = "detector_raised"
    /\ Called("detect")
    /\ retval.kind = "None"

\* C5: when the detect stage fails, the value run returns to the caller is the
\* failure-reason string.
C5_FailureIsString ==
    (Returned /\ failure # "none") => retval.kind = "str"

\* C6: when none of image, base64_image and image_path is supplied, the load stage
\* stops the pipeline: the result is the empty stop marker, no later stage runs and
\* no provider is called.
NoInput == runs > 0 /\ start.image = "none" /\ ~start.b64 /\ ~start.path
C7_ConfigMergedOverDefaults ==
    ev = "ImageLoadedEvent" =>
        LET given == IF start.seg THEN callerCfg.d ELSE EmptyDict
        IN  /\ DOMAIN seg.d = (DOMAIN given) \cup (DOMAIN DefaultPredictorDict)
            /\ \A k \in DOMAIN seg.d :
                  seg.d[k] = (IF HasKey(given, k) THEN given[k] ELSE DefaultPredictorDict[k])

\* C8: for each input form the message leaving the load stage carries a detection
\* configuration: the caller's values where supplied, otherwise confidence 0.1 and
\* nms_threshold 0.3.
C8_DetectionConfigurationCarried ==
    ev = "ImageLoadedEvent" =>
        /\ odc.present
        /\ odc.d = (IF start.odc THEN CallerOdc ELSE ObjectDetectionConfiguration)

\* C9: if the configuration already carries a region list, the detect stage calls
\* neither the captioning provider nor the detector, and the message it hands to
\* the segment-and-crop stage carries that region list unchanged.
C9_SuppliedRegionsSkipDetection ==
    [][(trace' = Append(trace, "create_bboxes") /\ HasKey(seg.d, "bbox_list")) =>
          /\ calls' = calls
          /\ failure' = "none"
          /\ ev' = "BBoxCreatedEvent" =>
                (HasKey(seg'.d, "bbox_list") /\ seg'.d["bbox_list"] = seg.d["bbox_list"])]_vars

C9_Witness ==
    /\ ev = "BBoxCreatedEvent"
    /\ HasKey(seg.d, "bbox_list")
    /\ Len(seg.d["bbox_list"]) = MaxRegions
    /\ calls = <<>>

\* C10: when the segment-and-crop stage ends and no per-region step failed, the
\* chunk list has exactly one chunk per region, in region-list order; chunk i
\* records the box of region i and has the root artifact as its parent.
NoRegionStepFailed ==
    /\ Ran("parse_image")
    /\ ~(Returned /\ retval.kind = "raised")
    /\ \A i \in 1..Len(diag) : diag[i] = "ImageChunkGenerated"
C10_OneChunkPerRegion ==
    NoRegionStepFailed =>
        LET bl == seg.d["bbox_list"]
        IN  /\ Len(ResultChunks) = Len(bl)
            /\ \A i \in 1..Len(bl) :
                  /\ ResultChunks[i].region = Box(bl[i])
                  /\ ResultChunks[i].parent = "root"

C10_Witness ==
    /\ Returned
    /\ NoRegionStepFailed
    /\ Len(retval.chunks) = 2
    /\ retval.chunks[1].region # retval.chunks[2].region
    /\ retval.chunks[1].region = Box(seg.d["bbox_list"][1])

\* how many of the events sent by the segment-and-crop stage are of kind e
CountDiag(e) == Cardinality({i \in 1..Len(diag) : diag[i] = e})

\* the segment-and-crop stage ran to its end in this invocation
ParseEnded == Ran("parse_image") /\ ~(Returned /\ retval.kind = "raised")

\* C11: a failure of one region's mask, crop or encode step skips only that
\* region's chunk and never leaves the segment-and-crop stage: no invocation ends
\* with the exception of a mask/crop step, and when the stage ends every region of
\* the list was processed and every region that did not fail has its chunk.
C11_RegionFailureContained ==
    /\ Returned => retval.error # "crop"
    /\ ParseEnded =>
          /\ Len(diag) = Len(seg.d["bbox_list"])
          /\ Len(ResultChunks) = CountDiag("ImageChunkGenerated")

\* C12: every chunk made by the segment-and-crop stage has as source the root
\* artifact's own source when the root has one and the root itself when it has
\* none, so all chunks of one invocation share one source.
C12_ChunkSourceIsRootSource ==
    ParseEnded =>
        \A i \in 1..Len(ResultChunks) :
            ResultChunks[i].source = (IF Root.hasSource THEN "origin" ELSE "root")

C12_Witness ==
    /\ Returned
    /\ ParseEnded
    /\ image = "node"
    /\ node.hasSource
    /\ Len(retval.chunks) = 2
    /\ retval.chunks[1].source = "origin"
    /\ retval.chunks[2].source = "origin"

\* the multi_modal_llm.complete calls of this invocation made to caption a chunk
IsCaptionCall(c) == c.p = "complete" /\ c.arg.use = "caption"
CaptionCallsMade == SelectSeq(calls, IsCaptionCall)

\* C13: if the segment-and-crop stage ends with no chunk (empty region list, or
\* every region skipped) the pipeline stops with exactly {source: root, chunks: []},
\* without a descriptions key; describe_image does not run and the captioning
\* provider is not called for a caption.
EmptyParse == DictResult({"source", "chunks"}, <<>>, <<>>)
C13_EmptyParseStops ==
    (ParseEnded /\ Len(ResultChunks) = 0) =>
        /\ ev \in {"StopEvent", "None"}
        /\ ~Ran("describe_image")
        /\ CaptionCallsMade = <<>>
        /\ ev = "StopEvent" => stop.result = EmptyParse
        /\ ev = "None" => retval = EmptyParse

C13_Witness ==
    /\ Returned
    /\ ParseEnded
    /\ retval = EmptyParse
    /\ multi_modal_llm
    /\ Len(seg.d["bbox_list"]) = 2
    /\ CountDiag("WorkflowRuntimeError") = 2

\* the result of the invocation once describe_image has made it: in the StopEvent,
\* or in the value handed to the caller
Result == IF ev = "StopEvent" THEN stop.result ELSE retval
RootSource == IF Root.hasSource THEN "origin" ELSE "root"

\* C14 (as stated): whenever describe_image has run, the result has as many
\* descriptions as chunks, whether or not a multi_modal_llm is configured.
C14_DescriptionsAligned ==
    Ran("describe_image") => Len(Result.descriptions) = Len(Result.chunks)

\* C14 (amended): whenever describe_image has run with a multi_modal_llm configured,
\* the result has as many descriptions as chunks, whatever calls failed; with none
\* configured the descriptions list is empty whatever the number of chunks.
C14_DescriptionsAlignedWithLlm ==
    Ran("describe_image") =>
        Len(Result.descriptions) = (IF multi_modal_llm THEN Len(Result.chunks) ELSE 0)

C14_Witness ==
    /\ Returned
    /\ Ran("describe_image")
    /\ multi_modal_llm
    /\ Len(retval.chunks) = 2
    /\ Len(retval.descriptions) = 2
    /\ retval.descriptions[1].null
    /\ ~retval.descriptions[2].null

\* C15: with a multi_modal_llm configured, describe_image calls complete exactly
\* once per chunk, in chunk order, whatever earlier calls did; descriptions[i] is
\* null exactly when the call for chunks[i] raised, and otherwise is a text node
\* whose PARENT is chunks[i] and whose SOURCE is _ref_doc_id of the root.
C15_OneCaptionPerChunk ==
    (Ran("describe_image") /\ multi_modal_llm) =>
        LET cs == Result.chunks
            ds == Result.descriptions
            cc == CaptionCallsMade
        IN  /\ Len(cc) = Len(cs)
            /\ Len(ds) = Len(cs)
            /\ \A i \in 1..Len(cs) :
                  /\ cc[i].arg.chunk = cs[i].id
                  /\ ds[i].null <=> cc[i].arg.raised
                  /\ ~ds[i].null => /\ ds[i].parent = cs[i].id
                                    /\ ds[i].source = RootSource

C15_Witness ==
    /\ Returned
    /\ Ran("describe_image")
    /\ multi_modal_llm
    /\ image = "node" /\ node.hasSource
    /\ Len(CaptionCallsMade) = 2
    /\ CaptionCallsMade[1].arg.raised
    /\ ~CaptionCallsMade[2].arg.raised
    /\ retval.descriptions[1] = NullDescription
    /\ retval.descriptions[2] = [null |-> FALSE, parent |-> retval.chunks[2].id,
                                 source |-> "origin"]

\* C16: with no multi_modal_llm configured and at least one chunk parsed,
\* describe_image makes no complete call and the result carries the source and the
\* chunks as parse_image emitted them, with an empty descriptions list.
C16_NoLlmNoDescriptions ==
    (Ran("describe_image") /\ ~multi_modal_llm) =>
        /\ ~Called("complete")
        /\ Result.kind = "dict"
        /\ Result.keys = {"source", "chunks", "descriptions"}
        /\ Result.source = "root"
        /\ Len(Result.chunks) >= 1
        /\ Result.chunks = parsed
        /\ Result.descriptions = <<>>

C16_Witness ==
    /\ Returned
    /\ Ran("describe_image")
    /\ ~multi_modal_llm
    /\ Len(retval.chunks) = 2
    /\ retval.chunks = parsed
    /\ "descriptions" \in retval.keys
    /\ retval.descriptions = <<>>

\* the root of the invocation after a step
RootAfter == IF image = "node" THEN node' ELSE doc'
Ids(chunks) == [i \in 1..Len(chunks) |-> chunks[i].id]
TailIds(chunks) == IF Len(chunks) = 0 THEN <<>> ELSE Tail(Ids(chunks))

\* a step of parse_image that went through all regions without raising
ParseStep ==
    /\ ev = "BBoxCreatedEvent"
    /\ trace' = Append(trace, "parse_image")
    /\ ev' \in {"ImageParsedEvent", "StopEvent"}
ParsedAfter == IF ev' = "ImageParsedEvent" THEN parsed' ELSE stop'.result.chunks

\* C17: when parse_image has gone through its regions, the root's CHILD list is its
\* CHILD list before the step followed by the references of every chunk but the
\* first, in the order made; over the invocations on one root the earlier children
\* stay as a prefix.
C17_ChildrenAppended ==
    [][/\ ParseStep => RootAfter.children = Root.children \o TailIds(ParsedAfter)
       /\ IsPrefix(node.children, node'.children)]_vars

C17_Witness ==
    /\ Returned
    /\ runs = 2
    /\ image = "node"
    /\ Len(retval.chunks) = 2
    /\ Len(node.children) = 2
    /\ node.children[1] = [run |-> 1, k |-> 2]
    /\ node.children[2] = retval.chunks[2].id

\* a step of describe_image, and the step that hands its result to the caller
DescribeStep == ev = "ImageParsedEvent" /\ trace' = Append(trace, "describe_image")
DescribedDone == Ran("describe_image") /\ ev = "StopEvent" /\ ev' = "None"

\* C19: describe_image leaves the chunk list as it was: the chunks of the result
\* are the very chunks parse_image emitted, in the same order and with the same
\* content and relationships, also when complete calls raise; the root is untouched.
C19_DescribeKeepsChunks ==
    [][/\ DescribeStep => /\ parsed' = parsed
                          /\ stop'.result.chunks = parsed
                          /\ node' = node /\ doc' = doc
       /\ DescribedDone => retval'.chunks = parsed]_vars

C19_Witness ==
    /\ Returned
    /\ Ran("describe_image")
    /\ multi_modal_llm
    /\ Len(parsed) = 2
    /\ retval.chunks = parsed
    /\ ~retval.descriptions[1].null
    /\ retval.descriptions[2].null

\* C20: over the invocations on one workflow object, each provider handle (OWLv2
\* model, OWLv2 processor, SAM2 predictor) is created at most once.
C20_HandlesCreatedOnce ==
    \A h \in DOMAIN loads : loads[h] <= 1

\* a step of create_bboxes on a configuration without a region list
DetectStep ==
    /\ ev = "ImageLoadedEvent"
    /\ trace' = Append(trace, "create_bboxes")
    /\ ~HasKey(seg.d, "bbox_list")
IsElicitCall(c) == c.p = "complete" /\ c.arg.use = "elicit"
IsDetectCall(c) == c.p = "detect"
PromptUsed == IF HasKey(seg.d, "prompt") THEN seg.d["prompt"] ELSE ElicitedPrompt
ElicitBeforeDetect(log) ==
    \A i, j \in 1..Len(log) : (IsElicitCall(log[i]) /\ IsDetectCall(log[j])) => i < j

\* t is x without its leading and trailing whitespace
IsStripOf(t, x) ==
    \E a, b \in 0..Len(x) :
        /\ a <= b
        /\ t = SubSeq(x, a + 1, b)
        /\ \A i \in 1..a : x[i] \in Whitespace
        /\ \A i \in (b + 1)..Len(x) : x[i] \in Whitespace
        /\ a < b => (x[a + 1] \notin Whitespace /\ x[b] \notin Whitespace)
StrippedSplit(texts, prompt) ==
    /\ Len(texts) = Len(Split(prompt))
    /\ \A i \in 1..Len(texts) : IsStripOf(texts[i], Split(prompt)[i])

\* C18 (as stated): in create_bboxes without a region list, complete is called for
\* the prompt exactly when the configuration has no prompt, at most once, and before
\* the detector; the texts given to the detector are the newline-split of the
\* elicited text, or of the caller's prompt when one was supplied.
C18_ElicitThenSplit ==
    [][DetectStep =>
          /\ Len(SelectSeq(calls', IsElicitCall)) = (IF HasKey(seg.d, "prompt") THEN 0 ELSE 1)
          /\ ElicitBeforeDetect(calls')
          /\ \A j \in 1..Len(calls') :
                IsDetectCall(calls'[j]) => calls'[j].arg.texts = Split(PromptUsed)]_vars

\* C18 (amended): with a multi_modal_llm configured, complete is called for the
\* prompt exactly when the configuration has no prompt, once, and before the
\* detector; with none configured and no prompt, no provider is called and the step
\* ends in the detection failure; the texts given to the detector are the
\* newline-split of the prompt with each piece stripped of surrounding whitespace.
C18_ElicitThenSplitStripped ==
    [][DetectStep =>
          /\ Len(SelectSeq(calls', IsElicitCall)) =
                (IF HasKey(seg.d, "prompt") \/ ~multi_modal_llm THEN 0 ELSE 1)
          /\ (~HasKey(seg.d, "prompt") /\ ~multi_modal_llm) =>
                /\ calls' = calls
                /\ ev' = "StopEvent"
                /\ failure' = "no_llm"
          /\ ElicitBeforeDetect(calls')
          /\ \A j \in 1..Len(calls') :
                IsDetectCall(calls'[j]) =>
                    /\ calls'[j].arg.prompt = PromptUsed
                    /\ StrippedSplit(calls'[j].arg.texts, PromptUsed)]_vars

C18_Witness ==
    /\ Ran("create_bboxes")
    /\ ev = "BBoxCreatedEvent"
    /\ detected.called
    /\ Len(calls) = 2
    /\ calls[1] = Call("complete", Elicit(FALSE))
    /\ IsDetectCall(calls[2])
    /\ calls[2].arg.prompt = ElicitedPrompt
    /\ calls[2].arg.texts = << <<"m">>, <<"l">>, <<>> >>

\* C21: an invocation leaves the segmentation configuration the caller passed as it
\* was (its prompt and bbox_list keys included), so that a later invocation given
\* the same configuration starts from what the caller wrote.
C21_ConfigurationUntouched ==
    [][callerCfg.present => callerCfg' = callerCfg]_vars

====
